---- MODULE Spec2Model ----
(***************************************************************************)
(* Model of xpipe_cli/cli.py: the connection resolver and the three        *)
(* session commands pull, push and exec.  One behaviour is one invocation  *)
(* of one command.  Strings are sequences of one-character strings, so     *)
(* that rsplit, int() and the comparison of name segments are computed.    *)
(* The API client (xpipe_client.Client) is the environment: every call     *)
(* either returns a value drawn from a small set or raises.                *)
(***************************************************************************)
EXTENDS Integers, Sequences, FiniteSets, TLC

\* ------------------------------------------------------------------ bounds
MaxConns == 2      \* rows a connection query returns
MaxSegs == 2       \* segments in a connection's name
MaxRef == 2        \* characters in the REMOTE / CONNECTION_NAME argument
MaxStream == 3     \* bytes the remote read delivers

\* ------------------------------------------------------- program constants
ChunkSize == 1024  \* resp.iter_content(1024)

\* Python's None, among values that are sequences
None == <<"None">>
\* no exception is pending
NoExc == "none"
\* the progress bar does not exist yet
NoBar == -1
\* no shell_exec result yet / shell_exec raised
NoResult == [status |-> "none", stdout |-> <<>>, stderr |-> <<>>, exitCode |-> 0]
RaisedResult == [status |-> "raised", stdout |-> <<>>, stderr |-> <<>>, exitCode |-> 0]
\* no read response yet
NoResp == [open |-> FALSE, content_length |-> None]

\* ------------------------------------------------------------- input sets
Chars == {"a", ":"}
Segs == {<<"a">>, <<"b">>}
Bytes == {0, 1}
DigitChars == <<"0", "1", "2", "3", "4", "5", "6", "7", "8", "9">>
Whitespace == {" ", "\n"}

BoundedSeq(S, n) == UNION {[1..k -> S] : k \in 0..n}

\* the identifier of the i-th row of a query: identifiers are unique
ConnId(i) == <<"uuid", i>>

Names == BoundedSeq(Segs, MaxSegs)

\* what connection_query can return: rows with the fields the code reads
ConnLists ==
    UNION {{[i \in 1..k |-> [name |-> f[i], connection |-> ConnId(i)]] :
              f \in [1..k -> Names]} : k \in 0..MaxConns}

\* what shell_exec can return
ExecResults ==
    { [status |-> "ok", stdout |-> <<"2", "\n">>, stderr |-> <<>>, exitCode |-> 0],
      [status |-> "ok", stdout |-> <<"1", "0", "\n">>, stderr |-> <<>>, exitCode |-> 0],
      [status |-> "ok", stdout |-> <<"x">>, stderr |-> <<>>, exitCode |-> 0],
      [status |-> "ok", stdout |-> <<>>, stderr |-> <<"e">>, exitCode |-> 1],
      [status |-> "ok", stdout |-> <<"2", "\n">>, stderr |-> <<"e">>, exitCode |-> 1] }

\* the content-length header of the read response, when there is one
HeaderValues == {None} \cup {<<DigitChars[k + 1]>> : k \in 0..MaxStream}

\* ------------------------------------------------------- pure functions
\* rsplit that pads a missing separator, as str.rpartition would
rsplitPadded(s) ==
    LET idx == {i \in 1..Len(s) : s[i] = ":"}
    IN  IF idx = {} THEN <<s, <<>>>>
        ELSE LET i == CHOOSE j \in idx : \A k \in idx : k <= j
             IN  <<SubSeq(s, 1, i - 1), SubSeq(s, i + 1, Len(s))>>

\* str.rsplit(":", 1)
rsplit(s) ==
    LET idx == {i \in 1..Len(s) : s[i] = ":"}
    IN  IF idx = {} THEN <<s>>
        ELSE LET i == CHOOSE j \in idx : \A k \in idx : k <= j
             IN  <<SubSeq(s, 1, i - 1), SubSeq(s, i + 1, Len(s))>>

\* str.strip() as int() applies it
RECURSIVE lstrip(_)
lstrip(s) == IF s # <<>> /\ Head(s) \in Whitespace THEN lstrip(Tail(s)) ELSE s

RECURSIVE rstrip(_)
rstrip(s) ==
    IF s # <<>> /\ s[Len(s)] \in Whitespace
    THEN rstrip(SubSeq(s, 1, Len(s) - 1)) ELSE s

DigitVal(c) == CHOOSE k \in 0..9 : DigitChars[k + 1] = c

IsDigit(c) == \E k \in 0..9 : DigitChars[k + 1] = c

RECURSIVE DecimalValue(_)
DecimalValue(s) ==
    IF s = <<>> THEN 0
    ELSE 10 * DecimalValue(SubSeq(s, 1, Len(s) - 1)) + DigitVal(s[Len(s)])

\* int(s) returns a value rather than raising ValueError
IsInt(s) ==
    LET t == rstrip(lstrip(s))
    IN  t # <<>> /\ \A i \in 1..Len(t) : IsDigit(t[i])

\* int(s), where it returns
int(s) == DecimalValue(rstrip(lstrip(s)))

\* a test that only catches the empty string
FalsyEmptyOnly(x) == x = <<>>

\* Python truth value of an Optional[str]
Falsy(x) == x = None \/ x = <<>>

\* a match on any segment instead of the last one
MatchesAnySegment(x, name) == \E k \in 1..Len(x.name) : x.name[k] = name

\* x["name"] and x["name"][-1] == name
Matches(x, name) == x.name # <<>> /\ x.name[Len(x.name)] = name

RECURSIVE Filter(_, _)
Filter(rows, name) ==
    IF rows = <<>> THEN <<>>
    ELSE (IF Matches(Head(rows), name) THEN <<Head(rows)>> ELSE <<>>)
         \o Filter(Tail(rows), name)

\* an unstable insertion: x goes before the elements with an equal key
InsertByLenUnstable(t, x) ==
    LET k == Cardinality({i \in 1..Len(t) : Len(t[i].name) < Len(x.name)})
    IN  SubSeq(t, 1, k) \o <<x>> \o SubSeq(t, k + 1, Len(t))

\* one step of the stable sort: x goes after every element whose key is not
\* larger than its own
InsertByLen(t, x) ==
    LET k == Cardinality({i \in 1..Len(t) : Len(t[i].name) <= Len(x.name)})
    IN  SubSeq(t, 1, k) \o <<x>> \o SubSeq(t, k + 1, Len(t))

\* sorted(rows, key=lambda x: len(x["name"]))
RECURSIVE sorted(_)
sorted(rows) ==
    IF rows = <<>> THEN <<>>
    ELSE InsertByLen(sorted(SubSeq(rows, 1, Len(rows) - 1)), rows[Len(rows)])

\* lines 16-17 of resolve_connection_name
SelectConnection(rows, name) ==
    LET possible_matches == sorted(Filter(rows, name))
    IN  IF possible_matches # <<>> THEN possible_matches[1].connection ELSE None

\* -------------------------------------------------------------------- state
VARIABLES
    cmd,              \* "pull", "push" or "exec"
    remote,           \* the REMOTE argument of pull and push
    raw,              \* the --raw flag of exec
    connection_name,
    remote_path,
    connection,
    all_connections,  \* rows of the query made by the resolver
    resolved,         \* value resolve_connection_name is about to return
    stat_result,      \* outcome of the size probe
    length,
    progress_total,   \* progress_bar.total
    progress_n,       \* progress_bar.n
    resp,             \* the read response: its content-length header
    chunk,            \* the chunk the copy loop holds
    delivered,        \* chunks iter_content has yielded
    sink,             \* chunks written to LOCAL
    blob_id,
    result,           \* what exec got from shell_exec
    out,              \* what was printed
    calls,            \* API calls made, in order
    pc,
    exc               \* the exception that ended the command

vars == <<cmd, remote, raw, connection_name, remote_path, connection,
          all_connections, resolved, stat_result, length, progress_total,
          progress_n, resp, chunk, delivered, sink, blob_id, result, out,
          calls, pc, exc>>

args == <<cmd, remote, raw>>
resolver == <<all_connections, resolved>>
transfer == <<stat_result, length, progress_total, progress_n, resp, chunk,
              delivered, sink>>

Call(op, conn, ok) == [op |-> op, conn |-> conn, ok |-> ok]

Init ==
    /\ cmd \in {"pull", "push", "exec"}
    /\ raw \in BOOLEAN
    /\ cmd # "exec" => raw = FALSE
    /\ IF cmd = "exec"
       THEN /\ remote = <<>>
            /\ connection_name \in BoundedSeq(Chars, MaxRef - 1)
            /\ pc = "resolve"
       ELSE /\ remote \in BoundedSeq(Chars, MaxRef)
            /\ connection_name = None
            /\ pc = "split"
    /\ remote_path = None
    /\ connection = None
    /\ all_connections = <<>>
    /\ resolved = None
    /\ stat_result = NoResult
    /\ length = 0
    /\ progress_total = NoBar
    /\ progress_n = 0
    /\ resp = NoResp
    /\ chunk = <<>>
    /\ delivered = <<>>
    /\ sink = <<>>
    /\ blob_id = None
    /\ result = NoResult
    /\ out = <<>>
    /\ calls = <<>>
    /\ exc = NoExc

\* an uncaught exception ends the command where it is
Raise(e) == pc' = "raised" /\ exc' = e

\* ------------------------------------------------------------- the resolver
\* line 54 / 85: connection_name, remote_path = remote.rsplit(":", 1)
Split ==
    /\ pc = "split"
    /\ LET parts == rsplit(remote)
       IN  IF Len(parts) = 2
           THEN /\ connection_name' = parts[1]
                /\ remote_path' = parts[2]
                /\ pc' = "resolve"
                /\ exc' = exc
           ELSE /\ Raise("ValueError")
                /\ UNCHANGED <<connection_name, remote_path>>
    /\ UNCHANGED <<args, connection, resolver, transfer, blob_id, result,
                   out, calls>>

\* line 14: client.connection_query(connections="")[0]["connection"]
ResolveDefault ==
    /\ pc = "resolve"
    /\ connection_name = <<>>
    /\ \/ /\ calls' = Append(calls, Call("connection_query", None, FALSE))
          /\ Raise("APIError")
          /\ UNCHANGED resolver
       \/ \E rows \in ConnLists :
            /\ calls' = Append(calls, Call("connection_query", None, TRUE))
            /\ all_connections' = rows
            /\ IF rows = <<>>
               THEN Raise("IndexError") /\ resolved' = resolved
               ELSE /\ resolved' = rows[1].connection
                    /\ pc' = "r_return"
                    /\ exc' = exc
    /\ UNCHANGED <<args, connection_name, remote_path, connection, transfer,
                   blob_id, result, out>>

\* line 15: all_connections = client.connection_query()
ResolveQuery ==
    /\ pc = "resolve"
    /\ connection_name # <<>>
    /\ \/ /\ calls' = Append(calls, Call("connection_query", None, FALSE))
          /\ Raise("APIError")
          /\ UNCHANGED all_connections
       \/ \E rows \in ConnLists :
            /\ calls' = Append(calls, Call("connection_query", None, TRUE))
            /\ all_connections' = rows
            /\ pc' = "r_select"
            /\ exc' = exc
    /\ UNCHANGED <<args, connection_name, remote_path, connection, resolved,
                   transfer, blob_id, result, out>>

\* lines 16-17
ResolveSelect ==
    /\ pc = "r_select"
    /\ resolved' = SelectConnection(all_connections, connection_name)
    /\ pc' = "r_return"
    /\ UNCHANGED <<args, connection_name, remote_path, connection,
                   all_connections, transfer, blob_id, result, out, calls,
                   exc>>

\* line 55 / 86 / 106: connection = resolve_connection_name(...); the
\* resolver's locals end with the call
ResolveReturn ==
    /\ pc = "r_return"
    /\ connection' = resolved
    /\ all_connections' = <<>>
    /\ pc' = "check"
    /\ UNCHANGED <<args, connection_name, remote_path, resolved, transfer,
                   blob_id, result, out, calls, exc>>

\* lines 56-58 / 87-89 / 107-109: if not connection: print(...); exit(1)
CheckConnection ==
    /\ pc = "check"
    /\ IF Falsy(connection)
       THEN /\ out' = Append(out, <<"Couldn't find connection UUID for",
                                    connection_name>>)
            /\ pc' = "exited"
       ELSE /\ out' = out
            /\ pc' = "shell_start"
    /\ UNCHANGED <<args, connection_name, remote_path, connection, resolver,
                   transfer, blob_id, result, calls, exc>>

\* a start whose failure is swallowed
ShellStartSwallowsFailure ==
    /\ pc = "shell_start"
    /\ \E ok \in BOOLEAN :
         calls' = Append(calls, Call("shell_start", connection, ok))
    /\ pc' = CASE cmd = "pull" -> "probe"
                [] cmd = "push" -> "fs_blob"
                [] cmd = "exec" -> "shell_exec"
    /\ out' = CASE cmd = "pull" -> Append(out, <<"Getting size of remote file", remote>>)
                 [] cmd = "push" -> Append(out, <<"Uploading to XPipe API">>)
                 [] cmd = "exec" -> out
    /\ UNCHANGED <<args, connection_name, remote_path, connection, resolver,
                   transfer, blob_id, result, exc>>

\* line 59 / 90 / 110: client.shell_start(connection)
ShellStart ==
    /\ pc = "shell_start"
    /\ \/ /\ calls' = Append(calls, Call("shell_start", connection, FALSE))
          /\ Raise("APIError")
          /\ out' = out
       \/ /\ calls' = Append(calls, Call("shell_start", connection, TRUE))
          /\ exc' = exc
          /\ pc' = CASE cmd = "pull" -> "probe"
                     [] cmd = "push" -> "fs_blob"
                     [] cmd = "exec" -> "shell_exec"
          /\ out' = CASE cmd = "pull" -> Append(out, <<"Getting size of remote file", remote>>)
                      [] cmd = "push" -> Append(out, <<"Uploading to XPipe API">>)
                      [] cmd = "exec" -> out
    /\ UNCHANGED <<args, connection_name, remote_path, connection, resolver,
                   transfer, blob_id, result>>

\* -------------------------------------------------------------------- pull
RECURSIVE Flatten(_)
Flatten(cs) == IF cs = <<>> THEN <<>> ELSE Head(cs) \o Flatten(Tail(cs))

\* the chunks iter_content(1024) can yield next: non-empty, at most ChunkSize
NextChunks ==
    LET room == MaxStream - Len(Flatten(delivered))
        most == IF room < ChunkSize THEN room ELSE ChunkSize
    IN  BoundedSeq(Bytes, most) \ {<<>>}

\* lines 61-66: the size probe, its except clause and the print after it
Probe ==
    /\ pc = "probe"
    /\ \/ /\ calls' = Append(calls, Call("shell_exec", connection, FALSE))
          /\ stat_result' = RaisedResult
          /\ length' = 0
       \/ \E r \in ExecResults :
            /\ calls' = Append(calls, Call("shell_exec", connection, TRUE))
            /\ stat_result' = r
            /\ length' = IF IsInt(r.stdout) THEN int(r.stdout) ELSE 0
    /\ out' = Append(out, <<"Copying", remote>>)
    /\ pc' = "fs_read"
    /\ UNCHANGED <<args, connection_name, remote_path, connection, resolver,
                   progress_total, progress_n, resp, chunk, delivered, sink,
                   blob_id, result, exc>>

\* an OpenRead that keeps a probed length instead of overriding it
OpenReadKeepsProbe ==
    /\ pc = "fs_read"
    /\ \/ /\ calls' = Append(calls, Call("_fs_read", connection, FALSE))
          /\ progress_total' = length
          /\ Raise("APIError")
          /\ UNCHANGED <<length, resp>>
       \/ \E h \in HeaderValues :
            /\ calls' = Append(calls, Call("_fs_read", connection, TRUE))
            /\ resp' = [open |-> TRUE, content_length |-> h]
            /\ IF h # None /\ ~IsInt(h)
               THEN /\ Raise("ValueError")
                    /\ progress_total' = length
                    /\ length' = length
               ELSE /\ length' = IF length # 0 \/ h = None THEN length
                                 ELSE int(h)
                    /\ progress_total' = length'
                    /\ pc' = "iter"
                    /\ exc' = exc
    /\ UNCHANGED <<args, connection_name, remote_path, connection, resolver,
                   stat_result, progress_n, chunk, delivered, sink, blob_id,
                   result, out>>

\* an OpenRead whose default for a missing header is the probed length
OpenReadDefaultsToProbe ==
    /\ pc = "fs_read"
    /\ \/ /\ calls' = Append(calls, Call("_fs_read", connection, FALSE))
          /\ progress_total' = length
          /\ Raise("APIError")
          /\ UNCHANGED <<length, resp>>
       \/ \E h \in HeaderValues :
            /\ calls' = Append(calls, Call("_fs_read", connection, TRUE))
            /\ resp' = [open |-> TRUE, content_length |-> h]
            /\ IF h # None /\ ~IsInt(h)
               THEN /\ Raise("ValueError")
                    /\ progress_total' = length
                    /\ length' = length
               ELSE /\ length' = IF h = None THEN length ELSE int(h)
                    /\ progress_total' = length'
                    /\ pc' = "iter"
                    /\ exc' = exc
    /\ UNCHANGED <<args, connection_name, remote_path, connection, resolver,
                   stat_result, progress_n, chunk, delivered, sink, blob_id,
                   result, out>>

\* lines 67-71: tqdm(total=length), _fs_read, the content-length override
OpenRead ==
    /\ pc = "fs_read"
    /\ \/ /\ calls' = Append(calls, Call("_fs_read", connection, FALSE))
          /\ progress_total' = length
          /\ Raise("APIError")
          /\ UNCHANGED <<length, resp>>
       \/ \E h \in HeaderValues :
            /\ calls' = Append(calls, Call("_fs_read", connection, TRUE))
            /\ resp' = [open |-> TRUE, content_length |-> h]
            /\ IF h # None /\ ~IsInt(h)
               THEN /\ Raise("ValueError")
                    /\ progress_total' = length
                    /\ length' = length
               ELSE /\ length' = IF h = None THEN 0 ELSE int(h)
                    /\ progress_total' = length'
                    /\ pc' = "iter"
                    /\ exc' = exc
    /\ UNCHANGED <<args, connection_name, remote_path, connection, resolver,
                   stat_result, progress_n, chunk, delivered, sink, blob_id,
                   result, out>>

\* line 72: the next chunk of resp.iter_content(1024), its end, or its failure
CopyNext ==
    /\ pc = "iter"
    /\ \/ /\ pc' = "print_done"
          /\ UNCHANGED <<chunk, delivered, exc>>
       \/ /\ Raise("ChunkedEncodingError")
          /\ UNCHANGED <<chunk, delivered>>
       \/ \E c \in NextChunks :
            /\ chunk' = c
            /\ delivered' = Append(delivered, c)
            /\ pc' = "update"
            /\ exc' = exc
    /\ UNCHANGED <<args, connection_name, remote_path, connection, resolver,
                   stat_result, length, progress_total, progress_n, resp,
                   sink, blob_id, result, out, calls>>

\* line 73: progress_bar.update(len(chunk))
CopyUpdate ==
    /\ pc = "update"
    /\ progress_n' = progress_n + Len(chunk)
    /\ pc' = "write"
    /\ UNCHANGED <<args, connection_name, remote_path, connection, resolver,
                   stat_result, length, progress_total, resp, chunk,
                   delivered, sink, blob_id, result, out, calls, exc>>

\* a write that puts the chunk into the sink twice
CopyWriteTwice ==
    /\ pc = "write"
    /\ \/ /\ sink' = sink \o <<chunk, chunk>>
          /\ pc' = "iter"
          /\ exc' = exc
       \/ /\ Raise("OSError")
          /\ sink' = sink
    /\ UNCHANGED <<args, connection_name, remote_path, connection, resolver,
                   stat_result, length, progress_total, progress_n, resp,
                   chunk, delivered, blob_id, result, out, calls>>

\* line 74: local.write(chunk)
CopyWrite ==
    /\ pc = "write"
    /\ \/ /\ sink' = Append(sink, chunk)
          /\ pc' = "iter"
          /\ exc' = exc
       \/ /\ Raise("OSError")
          /\ sink' = sink
    /\ UNCHANGED <<args, connection_name, remote_path, connection, resolver,
                   stat_result, length, progress_total, progress_n, resp,
                   chunk, delivered, blob_id, result, out, calls>>

\* line 75: print("Done!")
PullPrintDone ==
    /\ pc = "print_done"
    /\ out' = Append(out, <<"Done!">>)
    /\ pc' = "shell_stop"
    /\ UNCHANGED <<args, connection_name, remote_path, connection, resolver,
                   transfer, blob_id, result, calls, exc>>

\* -------------------------------------------------------------------- push
\* an upload whose failure is swallowed
FsBlobSwallowsFailure ==
    /\ pc = "fs_blob"
    /\ \/ /\ calls' = Append(calls, Call("fs_blob", None, FALSE))
          /\ blob_id' = None
       \/ /\ calls' = Append(calls, Call("fs_blob", None, TRUE))
          /\ blob_id' = <<"blob", 1>>
    /\ out' = Append(out, <<"Copying uploaded file to", remote>>)
    /\ pc' = "fs_write"
    /\ UNCHANGED <<args, connection_name, remote_path, connection, resolver,
                   transfer, result, exc>>

\* lines 92-93: blob_id = client.fs_blob(local) and the print after it
FsBlob ==
    /\ pc = "fs_blob"
    /\ \/ /\ calls' = Append(calls, Call("fs_blob", None, FALSE))
          /\ Raise("APIError")
          /\ UNCHANGED <<blob_id, out>>
       \/ /\ calls' = Append(calls, Call("fs_blob", None, TRUE))
          /\ blob_id' = <<"blob", 1>>
          /\ out' = Append(out, <<"Copying uploaded file to", remote>>)
          /\ pc' = "fs_write"
          /\ exc' = exc
    /\ UNCHANGED <<args, connection_name, remote_path, connection, resolver,
                   transfer, result>>

\* line 94: client.fs_write(connection, blob_id, remote_path)
FsWrite ==
    /\ pc = "fs_write"
    /\ \/ /\ calls' = Append(calls, Call("fs_write", connection, FALSE))
          /\ Raise("APIError")
       \/ /\ calls' = Append(calls, Call("fs_write", connection, TRUE))
          /\ pc' = "shell_stop"
          /\ exc' = exc
    /\ UNCHANGED <<args, connection_name, remote_path, connection, resolver,
                   transfer, blob_id, result, out>>

\* line 96: print("Done!")
PushPrintDone ==
    /\ pc = "push_done"
    /\ out' = Append(out, <<"Done!">>)
    /\ pc' = "returned"
    /\ UNCHANGED <<args, connection_name, remote_path, connection, resolver,
                   transfer, blob_id, result, calls, exc>>

\* -------------------------------------------------------------------- exec
\* line 111: result = client.shell_exec(connection, command)
ShellExec ==
    /\ pc = "shell_exec"
    /\ \/ /\ calls' = Append(calls, Call("shell_exec", connection, FALSE))
          /\ Raise("APIError")
          /\ result' = result
       \/ \E r \in ExecResults :
            /\ calls' = Append(calls, Call("shell_exec", connection, TRUE))
            /\ result' = r
            /\ pc' = "print_result"
            /\ exc' = exc
    /\ UNCHANGED <<args, connection_name, remote_path, connection, resolver,
                   transfer, blob_id, out>>

\* json.dumps(result, indent=2): every key of the dict with its value
json_dumps(r) ==
    <<<<"stdout", r.stdout>>, <<"stderr", r.stderr>>,
      <<"exitCode", r.exitCode>>>>

\* a print that takes the flag the wrong way round
PrintResultInverted ==
    /\ pc = "print_result"
    /\ out' = Append(out, IF ~raw THEN <<"stdout", result.stdout>>
                          ELSE <<"json", json_dumps(result)>>)
    /\ pc' = "shell_stop"
    /\ UNCHANGED <<args, connection_name, remote_path, connection, resolver,
                   transfer, blob_id, result, calls, exc>>

\* lines 112-115: print stdout when raw, the whole result otherwise
PrintResult ==
    /\ pc = "print_result"
    /\ out' = Append(out, IF raw THEN <<"stdout", result.stdout>>
                          ELSE <<"json", json_dumps(result)>>)
    /\ pc' = "shell_stop"
    /\ UNCHANGED <<args, connection_name, remote_path, connection, resolver,
                   transfer, blob_id, result, calls, exc>>

\* -------------------------------------------------------------- all commands
\* a stop that is tried a second time after a failure
ShellStopRetriesOnce ==
    /\ pc = "shell_stop"
    /\ \/ /\ calls' = Append(calls, Call("shell_stop", connection, FALSE))
          /\ IF \E i \in 1..Len(calls) : calls[i].op = "shell_stop"
             THEN Raise("APIError")
             ELSE UNCHANGED <<pc, exc>>
       \/ /\ calls' = Append(calls, Call("shell_stop", connection, TRUE))
          /\ pc' = IF cmd = "push" THEN "push_done" ELSE "returned"
          /\ exc' = exc
    /\ UNCHANGED <<args, connection_name, remote_path, connection, resolver,
                   transfer, blob_id, result, out>>

\* a stop that is given the name the user typed instead of the identifier
ShellStopByName ==
    /\ pc = "shell_stop"
    /\ \/ /\ calls' = Append(calls, Call("shell_stop", connection_name, FALSE))
          /\ Raise("APIError")
       \/ /\ calls' = Append(calls, Call("shell_stop", connection_name, TRUE))
          /\ pc' = IF cmd = "push" THEN "push_done" ELSE "returned"
          /\ exc' = exc
    /\ UNCHANGED <<args, connection_name, remote_path, connection, resolver,
                   transfer, blob_id, result, out>>

\* line 76 / 95 / 116: client.shell_stop(connection)
ShellStop ==
    /\ pc = "shell_stop"
    /\ \/ /\ calls' = Append(calls, Call("shell_stop", connection, FALSE))
          /\ Raise("APIError")
       \/ /\ calls' = Append(calls, Call("shell_stop", connection, TRUE))
          /\ pc' = IF cmd = "push" THEN "push_done" ELSE "returned"
          /\ exc' = exc
    /\ UNCHANGED <<args, connection_name, remote_path, connection, resolver,
                   transfer, blob_id, result, out>>

Next ==
    \/ Split
    \/ ResolveDefault
    \/ ResolveQuery
    \/ ResolveSelect
    \/ ResolveReturn
    \/ CheckConnection
    \/ ShellStart
    \/ Probe
    \/ OpenRead
    \/ CopyNext
    \/ CopyUpdate
    \/ CopyWrite
    \/ PullPrintDone
    \/ FsBlob
    \/ FsWrite
    \/ PushPrintDone
    \/ ShellExec
    \/ PrintResult
    \/ ShellStop

Spec == Init /\ [][Next]_vars

\* ------------------------------------------------------------ vocabulary
Terminated == pc \in {"returned", "exited", "raised"}

\* process exit status: 0 on return, 1 on exit(1) and on an uncaught exception
ExitStatus == IF pc = "returned" THEN 0 ELSE 1

CallsOf(op) == {i \in 1..Len(calls) : calls[i].op = op}
Succeeded(op) == {i \in CallsOf(op) : calls[i].ok}
Failed(op) == {i \in CallsOf(op) : ~calls[i].ok}
SessionOps == {"shell_start", "shell_exec", "_fs_read", "fs_blob", "fs_write",
               "shell_stop"}

\* ------------------------------------------------------------------ claims
\* C1: once shell_start has succeeded, shell_stop has been invoked exactly
\* once by the time the command gives control back, on every exit path.
StopOnceOnEveryExit ==
    (Terminated /\ Succeeded("shell_start") # {})
        => Cardinality(CallsOf("shell_stop")) = 1

\* C2: when the resolver returned none, the command goes no further than the
\* not-found exit: its status is non-zero and no session operation is made.
NoSessionWhenUnresolved ==
    (connection = None /\ pc \notin {"split", "resolve", "r_select", "r_return"})
        => /\ pc \in {"check", "exited", "raised"}
           /\ \A i \in 1..Len(calls) : calls[i].op \notin SessionOps
           /\ Terminated => ExitStatus # 0

UnresolvedExit ==
    /\ cmd = "pull"
    /\ pc = "exited"
    /\ connection = None
    /\ calls = <<Call("connection_query", None, TRUE)>>

\* C3: with the empty name the resolver returns the identifier of the first
\* row of the empty-name query, and returns none when the query has no rows.
EmptyNameResolvesOrNone ==
    (/\ connection_name = <<>>
     /\ pc \in {"r_return", "raised"}
     /\ calls = <<Call("connection_query", None, TRUE)>>)
        => /\ pc = "r_return"
           /\ resolved = IF all_connections = <<>> THEN None
                         ELSE all_connections[1].connection

\* rows of the last query whose name is non-empty and ends with the name
MatchingRows ==
    {i \in 1..Len(all_connections) :
        LET nm == all_connections[i].name
        IN  Len(nm) > 0 /\ nm[Len(nm)] = connection_name}

\* C4: for a non-empty name the resolver returns the matching row with the
\* fewest name segments, the earliest in query order among equals.
ShortestMatchFirstInQueryOrder ==
    (pc = "r_return" /\ connection_name # <<>> /\ MatchingRows # {})
        => \E i \in MatchingRows :
             /\ resolved = all_connections[i].connection
             /\ \A j \in MatchingRows :
                  \/ Len(all_connections[j].name) > Len(all_connections[i].name)
                  \/ /\ Len(all_connections[j].name) = Len(all_connections[i].name)
                     /\ j >= i

TieBrokenByQueryOrder ==
    /\ pc = "r_return"
    /\ connection_name = <<"a">>
    /\ Len(all_connections) = 2
    /\ all_connections[1].name = <<"b", "a">>
    /\ all_connections[2].name = <<"a", "a">>
    /\ resolved = ConnId(1)

\* C5: for a non-empty name the resolver returns none exactly when no row has
\* a non-empty name ending with it, and never returns a non-matching row.
NoneIffNoLastSegmentMatch ==
    (pc = "r_return" /\ connection_name # <<>>)
        => /\ (resolved = None) <=> (MatchingRows = {})
           /\ resolved # None
                => \E i \in MatchingRows : resolved = all_connections[i].connection

NoneDespiteNearMisses ==
    /\ pc = "r_return"
    /\ connection_name = <<"a">>
    /\ resolved = None
    /\ \E i \in 1..Len(all_connections) : all_connections[i].name = <<>>
    /\ \E i \in 1..Len(all_connections) : all_connections[i].name = <<"a", "b">>

\* C6: when pull's copy has completed, the sink holds exactly the chunks the
\* stream delivered, each once and in the delivered order, hence its L bytes.
SinkIsStream ==
    (cmd = "pull" /\ pc \in {"print_done", "shell_stop", "returned"})
        => /\ sink = delivered
           /\ Flatten(sink) = Flatten(delivered)

PulledInTwoChunks ==
    /\ cmd = "pull"
    /\ pc = "returned"
    /\ Len(delivered) = 2
    /\ Flatten(sink) = <<1, 0, 1>>

\* C7: when the transport reports a length, the progress total is that length
\* from the moment the response is open, before any chunk is copied.
TransportLengthIsTotal ==
    /\ (resp.open /\ resp.content_length # None)
          => progress_total = int(resp.content_length)
    /\ (delivered # <<>> \/ sink # <<>> \/ progress_n > 0) => resp.open

TransportOverridesProbe ==
    /\ pc = "iter"
    /\ delivered = <<>>
    /\ stat_result.status = "ok"
    /\ stat_result.exitCode = 0
    /\ stat_result.stdout = <<"2", "\n">>
    /\ resp.content_length = <<"3">>
    /\ progress_total = 3

\* C8: in push, a failed blob upload is never followed by a remote write.
NoWriteAfterFailedUpload ==
    Failed("fs_blob") # {} => CallsOf("fs_write") = {}

UploadFailed ==
    /\ cmd = "push"
    /\ pc = "raised"
    /\ Failed("fs_blob") # {}

\* the size probe failed: the call raised, the command exited non-zero, or
\* its stdout is not an integer
ProbeFailed ==
    \/ stat_result.status = "raised"
    \/ /\ stat_result.status = "ok"
       /\ stat_result.exitCode # 0 \/ ~IsInt(stat_result.stdout)

\* C9: a failed size probe is not propagated: pull moves on to the read with
\* the size taken as unknown (0).
FailedProbeIsUnknownSize ==
    (cmd = "pull" /\ ProbeFailed)
        => /\ pc = "raised" => CallsOf("_fs_read") # {}
           /\ pc = "fs_read" => length = 0

\* C10: in pull and push a reference without ':' fails at the split, before
\* any API call.
NoColon == \A i \in 1..Len(remote) : remote[i] # ":"

InvalidReferenceBeforeAnyCall ==
    (cmd \in {"pull", "push"} /\ NoColon)
        => /\ calls = <<>>
           /\ pc \in {"split", "raised"}
           /\ pc = "raised" => exc = "ValueError"

InvalidReferenceRaised ==
    /\ cmd = "push"
    /\ remote = <<"a", "a">>
    /\ pc = "raised"
    /\ exc = "ValueError"

\* bytes of the chunks whose progress update has run
UpdatedBytes ==
    IF pc = "update" THEN Len(Flatten(delivered)) - Len(chunk)
    ELSE Len(Flatten(delivered))

\* C11: in pull, transferred is the sum of the lengths of the chunks taken so
\* far (one update per chunk) and never exceeds a known (non-zero) total.
ProgressWithinKnownTotal ==
    cmd = "pull"
        => /\ progress_n = UpdatedBytes
           /\ progress_total > 0 => progress_n <= progress_total

\* C12: exec prints only stdout when raw is set, and the whole result
\* (stdout, stderr, exitCode) otherwise.
RawSurfacesOnlyStdout ==
    (cmd = "exec" /\ result.status = "ok" /\ pc \in {"shell_stop", "returned"})
        => /\ Len(out) = 1
           /\ out[1] = IF raw THEN <<"stdout", result.stdout>>
                       ELSE <<"json", <<<<"stdout", result.stdout>>,
                                        <<"stderr", result.stderr>>,
                                        <<"exitCode", result.exitCode>>>>>>

RawExecPrinted ==
    /\ cmd = "exec"
    /\ raw
    /\ pc = "returned"
    /\ result.stderr = <<"e">>
    /\ result.exitCode = 1
    /\ out = <<<<"stdout", <<"2", "\n">>>>>>

\* C13: in pull, transferred never runs ahead of the bytes written to the
\* sink, the state after a failed sink write included.
ProgressNotAheadOfSink ==
    cmd = "pull" => progress_n <= Len(Flatten(sink))

\* C14: "Done!" is reported only once the session stop has been performed.
DoneOnlyAfterStop ==
    (\E i \in 1..Len(out) : out[i] = <<"Done!">>)
        => Succeeded("shell_stop") # {}

\* operations that need an open session
InSessionOps == {"shell_exec", "_fs_read", "fs_write"}

\* C15: every in-session operation, the consumption of read chunks included,
\* comes after a successful shell_start and before any shell_stop.
SessionOpsBetweenStartAndStop ==
    /\ [](\A i \in 1..Len(calls) :
            calls[i].op \in InSessionOps
                => /\ \E j \in 1..(i - 1) :
                        calls[j].op = "shell_start" /\ calls[j].ok
                   /\ \A k \in 1..(i - 1) : calls[k].op # "shell_stop")
    /\ [][delivered' # delivered
            => Succeeded("shell_start") # {} /\ CallsOf("shell_stop") = {}]_vars

ReadThenStopped ==
    /\ cmd = "pull"
    /\ pc = "returned"
    /\ Len(delivered) = 2
    /\ calls[Len(calls)] = Call("shell_stop", connection, TRUE)

AllOps == SessionOps \cup {"connection_query"}

\* C16: no collaborator operation is invoked twice in one invocation, and a
\* failed call other than pull's size probe ends the command.
NoRetries ==
    /\ \A op \in AllOps : Cardinality(CallsOf(op)) <= 1
    /\ \A i \in 1..Len(calls) :
         (~calls[i].ok /\ ~(cmd = "pull" /\ calls[i].op = "shell_exec"))
            => i = Len(calls) /\ pc = "raised"

PullAfterFailedProbe ==
    /\ cmd = "pull"
    /\ pc = "returned"
    /\ Len(calls) = 5
    /\ calls[3] = Call("shell_exec", connection, FALSE)
    /\ \A op \in {"connection_query", "shell_start", "shell_exec", "_fs_read",
                  "shell_stop"} : Cardinality(CallsOf(op)) = 1

\* C17: in pull, when the read response declares no length, the progress
\* total is 0 once the response is open, whatever the probe returned.
NoDeclaredLengthMeansZeroTotal ==
    (cmd = "pull" /\ resp.open /\ resp.content_length = None)
        => progress_total = 0 /\ length = 0

ProbedSizeDropped ==
    /\ pc = "iter"
    /\ resp.open
    /\ resp.content_length = None
    /\ stat_result.status = "ok"
    /\ stat_result.exitCode = 0
    /\ stat_result.stdout = <<"1", "0", "\n">>
    /\ progress_total = 0

ConnectionOps == {"shell_start", "shell_exec", "_fs_read", "fs_write",
                  "shell_stop"}

\* C18: every session call of an invocation carries the identifier the
\* resolver returned; the session stopped is the session started.
OneConnectionPerInvocation ==
    \A i \in 1..Len(calls) :
        calls[i].op \in ConnectionOps
            => /\ calls[i].conn = resolved
               /\ resolved # None
               /\ \A j \in 1..Len(calls) :
                    calls[j].op \in ConnectionOps => calls[j].conn = calls[i].conn

SecondRowUsedThroughout ==
    /\ cmd = "push"
    /\ pc = "returned"
    /\ resolved = ConnId(2)
    /\ calls[2] = Call("shell_start", ConnId(2), TRUE)
    /\ calls[4] = Call("fs_write", ConnId(2), TRUE)
    /\ calls[5] = Call("shell_stop", ConnId(2), TRUE)
====
